---- MODULE Spec2Model ----
(***************************************************************************)
(* Model of backend/index.js: the POST /create-video pipeline.             *)
(*                                                                         *)
(* A request uploads media items and an audio item (multer), then the      *)
(* handler normalizes each supported item with one ffmpeg invocation,      *)
(* writes a concat list file, concatenates, muxes the audio, streams the   *)
(* result and deletes its working files when the stream closes.            *)
(*                                                                         *)
(* Every synchronous stretch of the handler (from one await to the next)   *)
(* is one action: Node runs it to completion before any other callback.    *)
(* Strings that the code builds (paths, the list file) are sequences of    *)
(* tokens; the characters the list-file syntax treats specially (quote,    *)
(* backslash, space, newline) are tokens of their own.                     *)
(***************************************************************************)
EXTENDS Integers, Sequences, FiniteSets, TLC

(* ------------------------------ bounds --------------------------------- *)

\* Largest number of media items one request uploads.
MaxMedia == 2

\* Date.now() runs from 0 to MaxTime.
MaxTime == 1

\* Seconds of an uploaded video.
VideoSeconds == 2

\* Seconds of an uploaded audio clip.
AudioSeconds == 4

\* Longest path drawn for the quoting round trip.
MaxPathLen == 4

(* ------------------------- program constants --------------------------- *)

\* "-t 3": the length of the clip made from an image.
ImageSeconds == 3

\* "-r 30"
FrameRate == 30

(* ------------------------------ strings -------------------------------- *)

Quote == "'"

Backslash == "\\"

Space == " "

Newline == "\n"

Digits == <<"0", "1", "2", "3", "4", "5", "6", "7", "8", "9">>

\* Number to decimal string, as `Date.now() + "-"` and `${index}` convert.
RECURSIVE NumStr(_)
NumStr(n) ==
    IF n < 10 THEN <<Digits[n + 1]>>
    ELSE NumStr(n \div 10) \o <<Digits[(n % 10) + 1]>>

\* s.startsWith(prefix)
StartsWith(s, prefix) ==
    /\ Len(s) >= Len(prefix)
    /\ SubSeq(s, 1, Len(prefix)) = prefix

\* path.join(dir, name)
PathJoin(dir, name) == dir \o <<"/">> \o name

\* lines.join("\n")
RECURSIVE JoinLines(_)
JoinLines(lines) ==
    IF lines = <<>> THEN <<>>
    ELSE IF Len(lines) = 1 THEN lines[1]
    ELSE lines[1] \o <<Newline>> \o JoinLines(Tail(lines))

Min(a, b) == IF a <= b THEN a ELSE b

Max(a, b) == IF a >= b THEN a ELSE b

RECURSIVE SumSeq(_)
SumSeq(s) == IF s = <<>> THEN 0 ELSE s[1] + SumSeq(Tail(s))

(* --------------------------- concat list file -------------------------- *)

\* Mutant: String.replace with a non-global pattern escapes the first quote only.
RECURSIVE EscapeFirstOnly(_)
EscapeFirstOnly(p) ==
    IF p = <<>> THEN <<>>
    ELSE IF p[1] = Quote
         THEN <<Quote, Backslash, Quote, Quote>> \o Tail(p)
         ELSE <<p[1]>> \o EscapeFirstOnly(Tail(p))

\* p.replace(/'/g, "'\\''"): every quote becomes the four characters '\''
RECURSIVE EscapeQuotes(_)
EscapeQuotes(p) ==
    IF p = <<>> THEN <<>>
    ELSE IF p[1] = Quote
         THEN <<Quote, Backslash, Quote, Quote>> \o EscapeQuotes(Tail(p))
         ELSE <<p[1]>> \o EscapeQuotes(Tail(p))

\* `file '${...}'`
ManifestLine(p) == <<"file", Space, Quote>> \o EscapeQuotes(p) \o <<Quote>>

\* segmentPaths.map(...).join("\n")
ConcatFileContent(paths) ==
    JoinLines([k \in 1..Len(paths) |-> ManifestLine(paths[k])])

(* The list-file reader of the external tool (ffmpeg's concat demuxer): the *)
(* file is read line by line; a line is a directive word, blanks, and one   *)
(* token. In a token, '...' quotes everything up to the next quote, and     *)
(* outside quotes a backslash takes the next character literally and a      *)
(* blank ends the token.                                                    *)

\* Split at newlines.
RECURSIVE SplitLines(_, _)
SplitLines(text, cur) ==
    IF text = <<>> THEN <<cur>>
    ELSE IF text[1] = Newline
         THEN <<cur>> \o SplitLines(Tail(text), <<>>)
         ELSE SplitLines(Tail(text), Append(cur, text[1]))

\* Reads one token; mode is "plain" or "quoted". The result is the token and
\* whether the line was well formed (quotes closed, nothing after the token).
RECURSIVE GetToken(_, _, _)
GetToken(buf, mode, out) ==
    IF buf = <<>> THEN [token |-> out, ok |-> (mode = "plain")]
    ELSE IF mode = "quoted"
         THEN IF buf[1] = Quote
              THEN GetToken(Tail(buf), "plain", out)
              ELSE GetToken(Tail(buf), "quoted", Append(out, buf[1]))
         ELSE IF buf[1] = Backslash /\ Len(buf) >= 2
              THEN GetToken(Tail(Tail(buf)), "plain", Append(out, buf[2]))
              ELSE IF buf[1] = Quote
                   THEN GetToken(Tail(buf), "quoted", out)
                   ELSE IF buf[1] = Space
                        THEN [token |-> out, ok |-> FALSE]
                        ELSE GetToken(Tail(buf), "plain", Append(out, buf[1]))

\* One line of the list file: `file <token>`.
ParseLine(line) ==
    IF StartsWith(line, <<"file", Space>>)
    THEN GetToken(SubSeq(line, 3, Len(line)), "plain", <<>>)
    ELSE [token |-> <<>>, ok |-> FALSE]

\* The paths a list file names, and whether every line was well formed.
ParseManifest(text) ==
    LET lines == SplitLines(text, <<>>)
        parsed == [k \in 1..Len(lines) |-> ParseLine(lines[k])]
    IN  [paths |-> [k \in 1..Len(lines) |-> parsed[k].token],
         ok |-> \A k \in 1..Len(lines) : parsed[k].ok]

(* ------------------------------- state --------------------------------- *)

VARIABLES
    up,       \* the server process is running
    now,      \* Date.now()
    fs,       \* the disk: path -> content, for the files that exist
    req,      \* per request: the handler's locals, its response, its tool calls
    qpath,    \* quoting round trip: the path drawn
    qline,    \* quoting round trip: the list-file line written for it
    qphase    \* quoting round trip: "drawn" or "written"

vars == <<up, now, fs, req, qpath, qline, qphase>>

pipelineVars == <<up, now, fs, req>>

quoteVars == <<qpath, qline, qphase>>

Reqs == {"r1", "r2"}

\* __dirname: where the server is installed. The name holds a quote, so that
\* every path the handler builds needs the list file's quoting.
dirname == <<"/", "o", Quote, "k">>

\* file.originalname, chosen by the client.
OrigNames == {"a", "b"}

MimeTypes ==
    {<<"image", "/", "png">>, <<"video", "/", "mp4">>, <<"text", "/", "plain">>}

(* ------------------------------ folders -------------------------------- *)

uploadFolder == PathJoin(dirname, <<"uploads">>)

tempFolder == PathJoin(dirname, <<"temp">>)

outputFolder == PathJoin(dirname, <<"outputs">>)

(* ------------------------------ the disk ------------------------------- *)

NoFiles == [p \in {} |-> 0]

Exists(disk, p) == p \in DOMAIN disk

\* fs.writeFileSync, an upload being stored, a tool saving its output
WriteFile(disk, p, content) == (p :> content) @@ disk

\* fs.unlinkSync of an existing file
Unlink(disk, p) == [q \in (DOMAIN disk) \ {p} |-> disk[q]]

FileContent(seconds, text, by) == [dur |-> seconds, text |-> text, by |-> by]

(* ------------------------------ uploads -------------------------------- *)

\* multer filename: Date.now() + "-" + file.originalname
uniqueName(originalname) == NumStr(now) \o <<"-", originalname>>

\* The file object multer hands to the handler.
UploadedFile(originalname, mimetype) ==
    [originalname |-> originalname,
     mimetype |-> mimetype,
     path |-> PathJoin(uploadFolder, uniqueName(originalname))]

\* Seconds of an uploaded media file: a still image has none.
MediaSeconds(mimetype) ==
    IF StartsWith(mimetype, <<"video", "/">>) THEN VideoSeconds ELSE 0

(* ----------------------- external tool invocations --------------------- *)

HasOption(options, name) == \E k \in 1..Len(options) : options[k][1] = name

OptionValue(options, name) ==
    options[CHOOSE k \in 1..Len(options) : options[k][1] = name][2]

\* createVideoFromImage: .inputOptions(["-loop 1"])
ImageInputOptions == << <<"-loop", 1>> >>

\* Mutant: the two numbers are swapped ("-t 30", "-r 3").
ImageOutputOptionsSwapped == << <<"-t", FrameRate>>, <<"-r", ImageSeconds>> >>

\* createVideoFromImage: .outputOptions(["-t 3", "-r 30"])
ImageOutputOptions == << <<"-t", ImageSeconds>>, <<"-r", FrameRate>> >>

\* normalizeVideo: .outputOptions(["-r 30"])
VideoOutputOptions == << <<"-r", FrameRate>> >>

\* concat: .inputOptions(["-f concat", "-safe 0"])
ConcatInputOptions == << <<"-f", "concat">>, <<"-safe", "0">> >>

\* concat: .outputOptions(["-c:v libx264", "-pix_fmt yuv420p", "-r 30"])
ConcatOutputOptions ==
    << <<"-c:v", "libx264">>, <<"-pix_fmt", "yuv420p">>, <<"-r", FrameRate>> >>

\* Mutant: the mux runs without "-shortest".
MuxOutputOptionsNoShortest == << <<"-c:v", "copy">>, <<"-c:a", "aac">> >>

\* mux: .outputOptions(["-c:v copy", "-c:a aac", "-shortest"])
MuxOutputOptions == << <<"-c:v", "copy">>, <<"-c:a", "aac">>, <<"-shortest">> >>

\* A started invocation: ffmpeg(inputs)...save(out)
Invocation(tool, item, inputs, inputOptions, outputOptions, out) ==
    [tool |-> tool, item |-> item, inputs |-> inputs,
     inputOptions |-> inputOptions, outputOptions |-> outputOptions,
     out |-> out, outcome |-> "running"]

\* createVideoFromImage(inputPath, index)
createVideoFromImage(inputPath, index) ==
    Invocation("image", index, <<inputPath>>, ImageInputOptions, ImageOutputOptions,
               PathJoin(tempFolder,
                        <<"img-">> \o NumStr(now) \o <<"-">> \o NumStr(index) \o <<".mp4">>))

\* normalizeVideo(inputPath, index)
normalizeVideo(inputPath, index) ==
    Invocation("video", index, <<inputPath>>, <<>>, VideoOutputOptions,
               PathJoin(tempFolder,
                        <<"vid-">> \o NumStr(now) \o <<"-">> \o NumStr(index) \o <<".mp4">>))

(* What the external tool does with its options (ffmpeg's documented       *)
(* behaviour): "-loop 1" repeats a still without end, "-t n" stops the     *)
(* output after n seconds, the concat demuxer plays the listed files one   *)
(* after the other, "-shortest" ends the output with its shortest input.   *)

\* Seconds of a re-encoded single input.
EncodedSeconds(inputSeconds, inputOptions, outputOptions) ==
    IF HasOption(outputOptions, "-t")
    THEN IF HasOption(inputOptions, "-loop")
         THEN OptionValue(outputOptions, "-t")
         ELSE Min(OptionValue(outputOptions, "-t"), inputSeconds)
    ELSE inputSeconds

\* A looped still with no "-t" never ends.
NeverEnds(inputOptions, outputOptions) ==
    HasOption(inputOptions, "-loop") /\ ~HasOption(outputOptions, "-t")

\* Seconds of the concatenation of the listed files.
ConcatSeconds(disk, paths) == SumSeq([k \in 1..Len(paths) |-> disk[paths[k]].dur])

\* Seconds of the muxed output.
MuxSeconds(videoSeconds, audioSeconds, outputOptions) ==
    IF HasOption(outputOptions, "-shortest")
    THEN Min(videoSeconds, audioSeconds)
    ELSE Max(videoSeconds, audioSeconds)

(* ----------------------------- the handler ----------------------------- *)

\* A request whose handler has not run yet.
NewRequest ==
    [pc |-> "Received",
     mediaFiles |-> <<>>, audioFiles |-> <<>>,
     i |-> 0, segmentPaths |-> <<>>,
     concatListPath |-> <<>>, concatFileContent |-> <<>>,
     mergedVideoPath |-> <<>>, outputPath |-> <<>>,
     status |-> 0, body |-> "", sent |-> 0,
     readStream |-> "none",
     calls |-> <<>>]

\* mime.startsWith("image/")
IsImage(file) == StartsWith(file.mimetype, <<"image", "/">>)

\* mime.startsWith("video/")
IsVideo(file) == StartsWith(file.mimetype, <<"video", "/">>)

Supported(file) == IsImage(file) \/ IsVideo(file)

\* res.status(code).json({ error }) and the handler's return
Respond(rq, code, error, pc) ==
    [rq EXCEPT !.status = code, !.body = error, !.sent = @ + 1, !.pc = pc]

\* An invocation is started and awaited.
StartCall(rq, call, pc) == [rq EXCEPT !.calls = Append(@, call), !.pc = pc]

\* The invocation being awaited.
LastCall(rq) == rq.calls[Len(rq.calls)]

\* The awaited invocation emitted "end" or "error".
Settle(rq, outcome) == [rq EXCEPT !.calls[Len(rq.calls)].outcome = outcome]

\* Mutant: segments are collected newest first.
PushSegmentFront(segmentPaths, seg) == <<seg>> \o segmentPaths

\* segmentPaths.push(seg)
PushSegment(segmentPaths, seg) == Append(segmentPaths, seg)

\* The loop passes over unsupported items without awaiting: the index (from 0)
\* of the first supported item at or after i, or mediaFiles.length.
RECURSIVE SkipUnsupported(_, _)
SkipUnsupported(mediaFiles, i) ==
    IF i >= Len(mediaFiles) THEN Len(mediaFiles)
    ELSE IF Supported(mediaFiles[i + 1]) THEN i
    ELSE SkipUnsupported(mediaFiles, i + 1)

\* Mutant: an unsupported item is handed to the video normalizer.
SegmentLoopNoFilter(rq, from) ==
    IF from < Len(rq.mediaFiles)
    THEN LET file == rq.mediaFiles[from + 1]
         IN  [StartCall(rq,
                        IF IsImage(file)
                        THEN createVideoFromImage(file.path, from)
                        ELSE normalizeVideo(file.path, from),
                        "Normalizing") EXCEPT !.i = from]
    ELSE [rq EXCEPT !.i = Len(rq.mediaFiles)]

\* Mutant: the loop does not await; the next supported item is started too.
SegmentLoopNoAwait(rq, from) ==
    LET i == SkipUnsupported(rq.mediaFiles, from)
        started ==
            IF i < Len(rq.mediaFiles)
            THEN LET file == rq.mediaFiles[i + 1]
                 IN  [StartCall(rq,
                                IF IsImage(file)
                                THEN createVideoFromImage(file.path, i)
                                ELSE normalizeVideo(file.path, i),
                                "Normalizing") EXCEPT !.i = i]
            ELSE [rq EXCEPT !.i = Len(rq.mediaFiles)]
        j == SkipUnsupported(rq.mediaFiles, i + 1)
    IN  IF i < Len(rq.mediaFiles) /\ j < Len(rq.mediaFiles)
        THEN LET file == rq.mediaFiles[j + 1]
             IN  StartCall(started,
                           IF IsImage(file)
                           THEN createVideoFromImage(file.path, j)
                           ELSE normalizeVideo(file.path, j),
                           "Normalizing")
        ELSE started

\* The segment loop from index `from` up to its next await, or to its end.
SegmentLoop(rq, from) ==
    LET i == SkipUnsupported(rq.mediaFiles, from)
    IN  IF i < Len(rq.mediaFiles)
        THEN LET file == rq.mediaFiles[i + 1]
             IN  [StartCall(rq,
                            IF IsImage(file)
                            THEN createVideoFromImage(file.path, i)
                            ELSE normalizeVideo(file.path, i),
                            "Normalizing") EXCEPT !.i = i]
        ELSE [rq EXCEPT !.i = Len(rq.mediaFiles)]

\* Mutant: the empty check after the loop is missing.
AfterLoopNoEmptyCheck(rq) ==
    LET concatListPath ==
            PathJoin(tempFolder, <<"concat-list-">> \o NumStr(now) \o <<".txt">>)
        mergedVideoPath ==
            PathJoin(tempFolder, <<"merged-">> \o NumStr(now) \o <<".mp4">>)
    IN  [StartCall(rq,
                   Invocation("concat", -1, <<concatListPath>>,
                              ConcatInputOptions, ConcatOutputOptions,
                              mergedVideoPath),
                   "Concatenating")
            EXCEPT !.concatListPath = concatListPath,
                   !.concatFileContent = ConcatFileContent(rq.segmentPaths),
                   !.mergedVideoPath = mergedVideoPath]

\* After the loop: the empty check, the list file, the concat invocation.
AfterLoop(rq) ==
    IF rq.segmentPaths = <<>>
    THEN Respond(rq, 400, "No valid media (image/video) files to process.", "Rejected")
    ELSE LET concatListPath ==
                 PathJoin(tempFolder, <<"concat-list-">> \o NumStr(now) \o <<".txt">>)
             mergedVideoPath ==
                 PathJoin(tempFolder, <<"merged-">> \o NumStr(now) \o <<".mp4">>)
         IN  [StartCall(rq,
                        Invocation("concat", -1, <<concatListPath>>,
                                   ConcatInputOptions, ConcatOutputOptions,
                                   mergedVideoPath),
                        "Concatenating")
                 EXCEPT !.concatListPath = concatListPath,
                        !.concatFileContent = ConcatFileContent(rq.segmentPaths),
                        !.mergedVideoPath = mergedVideoPath]

\* The try block from loop index `from` to the next await or return, with the
\* disk as the handler finds it.
RunFrom(r, rq, from, disk) ==
    LET looped == SegmentLoop(rq, from)
    IN  IF Len(looped.calls) > Len(rq.calls)
        THEN /\ req' = [req EXCEPT ![r] = looped]
             /\ fs' = disk
        ELSE LET after == AfterLoop(looped)
             IN  /\ req' = [req EXCEPT ![r] = after]
                 /\ fs' = IF after.pc = "Concatenating"
                          THEN WriteFile(disk, after.concatListPath,
                                         FileContent(0, after.concatFileContent, r))
                          ELSE disk

\* Mutant: the media check is missing.
ValidateNoMediaCheck(rq) ==
    IF rq.audioFiles = <<>> THEN "No audio file received." ELSE ""

\* Mutant: the audio check is missing.
ValidateNoAudioCheck(rq) ==
    IF rq.mediaFiles = <<>> THEN "No media files received." ELSE ""

\* The two checks on entry: the error to answer with, or "" to go on.
Validate(rq) ==
    IF rq.mediaFiles = <<>> THEN "No media files received."
    ELSE IF rq.audioFiles = <<>> THEN "No audio file received."
    ELSE ""

\* Mutant: the error is logged and the handler goes on waiting.
CatchAndIgnore(rq) == Settle(rq, "error")

\* Mutant: a tool failure is answered like a client input error.
CatchAsRejected(rq) ==
    Respond(Settle(rq, "error"), 400, "Failed to create video.", "Rejected")

\* catch (err): res.status(500).json(...)
Catch(rq) == Respond(Settle(rq, "error"), 500, "Failed to create video.", "Failed")

(* ------------------------------ cleanup -------------------------------- *)

\* Mutant: the cleanup forgets the segments.
CleanupTargetsNoSegments(rq) ==
    <<[path |-> rq.audioFiles[1].path, guarded |-> FALSE]>>
    \o [k \in 1..Len(rq.mediaFiles) |->
            [path |-> rq.mediaFiles[k].path, guarded |-> TRUE]]
    \o <<[path |-> rq.concatListPath, guarded |-> TRUE]>>

\* The files the "close" callback removes, in its order. The audio file is
\* unlinked outright; the others only if fs.existsSync finds them.
CleanupTargets(rq) ==
    <<[path |-> rq.audioFiles[1].path, guarded |-> FALSE]>>
    \o [k \in 1..Len(rq.mediaFiles) |->
            [path |-> rq.mediaFiles[k].path, guarded |-> TRUE]]
    \o [k \in 1..Len(rq.segmentPaths) |->
            [path |-> rq.segmentPaths[k], guarded |-> TRUE]]
    \o <<[path |-> rq.concatListPath, guarded |-> TRUE]>>

\* Runs the deletions from target k on. failAt names the target whose unlink
\* the system refuses (0: none); unlinking a missing file always throws. The
\* first throw ends the try block.
RECURSIVE RunCleanup(_, _, _, _)
RunCleanup(disk, targets, k, failAt) ==
    IF k > Len(targets) THEN [disk |-> disk, threw |-> FALSE]
    ELSE LET t == targets[k]
         IN  IF t.guarded /\ ~Exists(disk, t.path)
             THEN RunCleanup(disk, targets, k + 1, failAt)
             ELSE IF ~Exists(disk, t.path) \/ k = failAt
                  THEN [disk |-> disk, threw |-> TRUE]
                  ELSE RunCleanup(Unlink(disk, t.path), targets, k + 1, failAt)

\* Mutant: a deletion failure is reported to the client as a processing
\* failure.
CleanupOutcomeAnswers500(rq, threw) ==
    IF threw
    THEN Respond([rq EXCEPT !.readStream = "closed"], 500,
                 "Failed to create video.", "CleanupPartialFailure")
    ELSE [rq EXCEPT !.readStream = "closed", !.pc = "CleanedUp"]

\* The cleanup callback has returned: either every deletion went through, or
\* the first failing one ended the try block and was logged by its catch.
CleanupOutcome(rq, threw) ==
    [rq EXCEPT !.readStream = "closed",
               !.pc = IF threw THEN "CleanupPartialFailure" ELSE "CleanedUp"]

(* ------------------------------ actions -------------------------------- *)

\* Mutant: an invocation still running when the clock advances is given up
\* and the request fails.
TickWithTimeout ==
    /\ now < MaxTime
    /\ now' = now + 1
    /\ req' = [r \in Reqs |->
                 IF req[r].pc \in {"Normalizing", "Concatenating", "Muxing"}
                 THEN Respond(req[r], 500, "Failed to create video.", "Failed")
                 ELSE req[r]]
    /\ UNCHANGED <<up, fs, quoteVars>>

\* Time passes.
Tick ==
    /\ now < MaxTime
    /\ now' = now + 1
    /\ UNCHANGED <<up, fs, req, quoteVars>>

\* multer stores one "media" part of the form.
UploadMedia(r) ==
    /\ up
    /\ req[r].pc = "Received"
    /\ Len(req[r].mediaFiles) < MaxMedia
    /\ \E originalname \in OrigNames, mimetype \in MimeTypes :
         LET file == UploadedFile(originalname, mimetype)
         IN  /\ req' = [req EXCEPT ![r].mediaFiles = Append(@, file)]
             /\ fs' = WriteFile(fs, file.path,
                                FileContent(MediaSeconds(mimetype), <<>>, r))
    /\ UNCHANGED <<up, now, quoteVars>>

\* multer stores the "audio" part of the form (maxCount 1).
UploadAudio(r) ==
    /\ up
    /\ req[r].pc = "Received"
    /\ req[r].audioFiles = <<>>
    /\ \E originalname \in OrigNames :
         LET file == UploadedFile(originalname, <<"audio", "/", "webm">>)
         IN  /\ req' = [req EXCEPT ![r].audioFiles = <<file>>]
             /\ fs' = WriteFile(fs, file.path, FileContent(AudioSeconds, <<>>, r))
    /\ UNCHANGED <<up, now, quoteVars>>

\* Mutant: the 400 answers of the input checks are not followed by return.
BeginNoReturn(r) ==
    /\ up
    /\ req[r].pc = "Received"
    /\ IF Validate(req[r]) # ""
       THEN RunFrom(r, Respond(req[r], 400, Validate(req[r]), "Rejected"), 0, fs)
       ELSE RunFrom(r, req[r], 0, fs)
    /\ UNCHANGED <<up, now, quoteVars>>

\* The form is complete and the handler runs up to its first await or return.
Begin(r) ==
    /\ up
    /\ req[r].pc = "Received"
    /\ IF Validate(req[r]) # ""
       THEN /\ req' = [req EXCEPT ![r] = Respond(@, 400, Validate(req[r]), "Rejected")]
            /\ fs' = fs
       ELSE RunFrom(r, req[r], 0, fs)
    /\ UNCHANGED <<up, now, quoteVars>>

\* Mutant: the loop index is not advanced; the same item is taken again.
NormalizeEndRepeats(r) ==
    /\ up
    /\ req[r].pc = "Normalizing"
    /\ LET call == LastCall(req[r])
       IN  /\ Exists(fs, call.inputs[1])
           /\ ~NeverEnds(call.inputOptions, call.outputOptions)
           /\ LET seconds == EncodedSeconds(fs[call.inputs[1]].dur,
                                            call.inputOptions, call.outputOptions)
                  disk == WriteFile(fs, call.out, FileContent(seconds, <<>>, r))
                  rq == [Settle(req[r], "end") EXCEPT
                            !.segmentPaths = PushSegment(@, call.out)]
              IN  RunFrom(r, rq, req[r].i, disk)
    /\ UNCHANGED <<up, now, quoteVars>>

\* A normalizer invocation emits "end": the segment is on disk, the loop goes on.
NormalizeEnd(r) ==
    /\ up
    /\ req[r].pc = "Normalizing"
    /\ LET call == LastCall(req[r])
       IN  /\ Exists(fs, call.inputs[1])
           /\ ~NeverEnds(call.inputOptions, call.outputOptions)
           /\ LET seconds == EncodedSeconds(fs[call.inputs[1]].dur,
                                            call.inputOptions, call.outputOptions)
                  disk == WriteFile(fs, call.out, FileContent(seconds, <<>>, r))
                  rq == [Settle(req[r], "end") EXCEPT
                            !.segmentPaths = PushSegment(@, call.out)]
              IN  RunFrom(r, rq, req[r].i + 1, disk)
    /\ UNCHANGED <<up, now, quoteVars>>

\* A normalizer invocation emits "error".
NormalizeError(r) ==
    /\ up
    /\ req[r].pc = "Normalizing"
    /\ ~NeverEnds(LastCall(req[r]).inputOptions, LastCall(req[r]).outputOptions)
    /\ req' = [req EXCEPT ![r] = Catch(@)]
    /\ UNCHANGED <<up, now, fs, quoteVars>>

\* The concat invocation emits "end": the merged track is on disk and the mux
\* invocation is started.
ConcatEnd(r) ==
    /\ up
    /\ req[r].pc = "Concatenating"
    /\ LET call == LastCall(req[r])
       IN  /\ Exists(fs, call.inputs[1])
           /\ LET list == ParseManifest(fs[call.inputs[1]].text)
              IN  /\ list.ok
                  /\ \A k \in 1..Len(list.paths) : Exists(fs, list.paths[k])
                  /\ LET disk == WriteFile(fs, call.out,
                                     FileContent(ConcatSeconds(fs, list.paths), <<>>, r))
                         outputPath ==
                             PathJoin(outputFolder,
                                      <<"final-">> \o NumStr(now) \o <<".mp4">>)
                         mux == Invocation("mux", -1,
                                           <<req[r].mergedVideoPath,
                                             req[r].audioFiles[1].path>>,
                                           <<>>, MuxOutputOptions, outputPath)
                     IN  /\ req' = [req EXCEPT ![r] =
                                      [StartCall(Settle(@, "end"), mux, "Muxing")
                                          EXCEPT !.outputPath = outputPath]]
                         /\ fs' = disk
    /\ UNCHANGED <<up, now, quoteVars>>

\* The concat invocation emits "error".
ConcatError(r) ==
    /\ up
    /\ req[r].pc = "Concatenating"
    /\ req' = [req EXCEPT ![r] = Catch(@)]
    /\ UNCHANGED <<up, now, fs, quoteVars>>

\* The mux invocation emits "end": the final artifact is on disk and is piped
\* to the response.
MuxEnd(r) ==
    /\ up
    /\ req[r].pc = "Muxing"
    /\ LET call == LastCall(req[r])
       IN  /\ Exists(fs, call.inputs[1])
           /\ Exists(fs, call.inputs[2])
           /\ fs' = WriteFile(fs, call.out,
                       FileContent(MuxSeconds(fs[call.inputs[1]].dur,
                                              fs[call.inputs[2]].dur,
                                              call.outputOptions), <<>>, r))
           /\ req' = [req EXCEPT ![r] =
                        [Settle(@, "end") EXCEPT
                            !.status = 200, !.body = "stream", !.sent = @ + 1,
                            !.readStream = "open", !.pc = "Delivering"]]
    /\ UNCHANGED <<up, now, quoteVars>>

\* Mutant: the failure path removes the request's working files.
MuxErrorCleansUp(r) ==
    /\ up
    /\ req[r].pc = "Muxing"
    /\ req' = [req EXCEPT ![r] = Catch(@)]
    /\ fs' = RunCleanup(fs, CleanupTargets(req[r]), 1, 0).disk
    /\ UNCHANGED <<up, now, quoteVars>>

\* The mux invocation emits "error".
MuxError(r) ==
    /\ up
    /\ req[r].pc = "Muxing"
    /\ req' = [req EXCEPT ![r] = Catch(@)]
    /\ UNCHANGED <<up, now, fs, quoteVars>>

\* The read stream emits "close": the cleanup callback runs.
StreamClose(r) ==
    /\ up
    /\ req[r].pc = "Delivering"
    /\ \E failAt \in 0..Len(CleanupTargets(req[r])) :
         LET done == RunCleanup(fs, CleanupTargets(req[r]), 1, failAt)
         IN  /\ fs' = done.disk
             /\ req' = [req EXCEPT ![r] = CleanupOutcome(@, done.threw)]
    /\ UNCHANGED <<up, now, quoteVars>>

\* Mutant: the cleanup callback also runs when the stream ends with an error.
StreamErrorCleansUp(r) ==
    /\ up
    /\ req[r].pc = "Delivering"
    /\ \E failAt \in 0..Len(CleanupTargets(req[r])) :
         LET done == RunCleanup(fs, CleanupTargets(req[r]), 1, failAt)
         IN  /\ fs' = done.disk
             /\ req' = [req EXCEPT ![r] =
                          [CleanupOutcome(@, done.threw) EXCEPT !.readStream = "error"]]
    /\ UNCHANGED <<up, now, quoteVars>>

\* The read stream emits "error" (the final artifact cannot be read). The
\* stream has no "error" listener, so the event is an uncaught exception: the
\* process ends before any "close" callback runs.
StreamError(r) ==
    /\ up
    /\ req[r].pc = "Delivering"
    /\ up' = FALSE
    /\ req' = [req EXCEPT ![r].readStream = "error"]
    /\ UNCHANGED <<now, fs, quoteVars>>

\* What the running server does for request r.
Step(r) ==
    \/ UploadMedia(r)
    \/ UploadAudio(r)
    \/ Begin(r)
    \/ NormalizeEnd(r)
    \/ NormalizeError(r)
    \/ ConcatEnd(r)
    \/ ConcatError(r)
    \/ MuxEnd(r)
    \/ MuxError(r)
    \/ StreamClose(r)

\* The server has started; no request has arrived.
Init ==
    /\ up = TRUE
    /\ now = 0
    /\ fs = NoFiles
    /\ req = [r \in Reqs |-> NewRequest]
    /\ qpath = <<>>
    /\ qline = <<>>
    /\ qphase = "idle"

\* One request at a time.
Next ==
    \/ Tick
    \/ Step("r1")
    \/ StreamError("r1")

Spec == Init /\ [][Next]_vars

\* The invocation awaited by request r emits "end" or "error".
ToolSettles(r) ==
    \/ NormalizeError(r)
    \/ ConcatError(r)
    \/ MuxError(r)
    \/ NormalizeEnd(r)
    \/ ConcatEnd(r)
    \/ MuxEnd(r)

\* The server under the assumption that the handler of a complete form runs,
\* that every tool invocation awaited emits "end" or "error", and that an open
\* delivery stream emits "close" unless it fails.
SpecLive ==
    /\ Init
    /\ [][Next]_vars
    /\ WF_vars(ToolSettles("r1"))
    /\ WF_vars(StreamClose("r1"))

(* ----------------------- quoting round trip ---------------------------- *)

\* Characters a path is drawn from: a plain one, and the ones the list-file
\* syntax treats specially within a line.
PathChars == {"a", Quote, Backslash, Space}

RECURSIVE PathsUpTo(_)
PathsUpTo(n) ==
    IF n = 0 THEN {<<>>}
    ELSE LET shorter == PathsUpTo(n - 1)
         IN  shorter \cup {Append(p, c) : p \in shorter, c \in PathChars}

InitQuote ==
    /\ up = TRUE
    /\ now = 0
    /\ fs = NoFiles
    /\ req = [r \in Reqs |-> NewRequest]
    /\ qpath \in PathsUpTo(MaxPathLen) \ {<<>>}
    /\ qline = <<>>
    /\ qphase = "drawn"

\* The list-file line for the drawn path is written.
WriteLine ==
    /\ qphase = "drawn"
    /\ qline' = ManifestLine(qpath)
    /\ qphase' = "written"
    /\ UNCHANGED <<qpath, pipelineVars>>

NextQuote == WriteLine

SpecQuote == InitQuote /\ [][NextQuote]_vars

(* ------------------------------ claims --------------------------------- *)

\* Indices (from 0) of the supported media items, in upload order.
SupportedItems(rq) ==
    SelectSeq([k \in 1..Len(rq.mediaFiles) |-> k - 1],
              LAMBDA i : Supported(rq.mediaFiles[i + 1]))

\* The normalizer invocations started for item i.
CallsFor(rq, i) ==
    {k \in 1..Len(rq.calls) : rq.calls[k].tool \in {"image", "video"} /\ rq.calls[k].item = i}

\* The files of a directory.
FilesIn(folder) == {p \in DOMAIN fs : StartsWith(p, folder \o <<"/">>)}

\* The request's handler has run.
Handled(rq) == rq.pc # "Received"

\* C1: once the concat list is built, its lines, read as the concat tool
\* reads them, name exactly the segments made from the supported media items
\* (MIME type image/ or video/) in upload order: one line per such item, the
\* k-th line naming the output of the invocation that normalized the k-th
\* supported item, an image clip for an image and a video clip for a video.
C1_ManifestFollowsUploadOrder ==
    \A r \in Reqs :
      req[r].concatListPath # <<>> =>
        LET rq == req[r]
            list == ParseManifest(rq.concatFileContent)
            items == SupportedItems(rq)
        IN  /\ list.ok
            /\ Len(list.paths) = Len(items)
            /\ \A k \in 1..Len(items) :
                 /\ Cardinality(CallsFor(rq, items[k])) = 1
                 /\ \A c \in CallsFor(rq, items[k]) :
                      /\ rq.calls[c].out = list.paths[k]
                      /\ rq.calls[c].inputs = <<rq.mediaFiles[items[k] + 1].path>>
                      /\ rq.calls[c].tool =
                           IF IsImage(rq.mediaFiles[items[k] + 1]) THEN "image" ELSE "video"
                      /\ \A j \in 1..Len(items) :
                           j < k => \E d \in CallsFor(rq, items[j]) : d < c

\* C1 witness: a list built for a video followed by an image.
C1_Witness ==
    /\ req["r1"].concatListPath # <<>>
    /\ Len(req["r1"].mediaFiles) = 2
    /\ IsVideo(req["r1"].mediaFiles[1])
    /\ IsImage(req["r1"].mediaFiles[2])
    /\ req["r1"].mediaFiles[1].path # req["r1"].mediaFiles[2].path

\* The uploaded files, segments and list file of a request.
WorkingFiles(rq) ==
    {rq.audioFiles[k].path : k \in 1..Len(rq.audioFiles)}
    \cup {rq.mediaFiles[k].path : k \in 1..Len(rq.mediaFiles)}
    \cup {rq.segmentPaths[k] : k \in 1..Len(rq.segmentPaths)}
    \cup {rq.concatListPath}

\* C2 as stated: after a successful request with a clean cleanup, no uploaded
\* file, segment, list file or merged track of the request is on disk, and
\* the final artifact is.
C2_Original ==
    \A r \in Reqs :
      req[r].pc = "CleanedUp" =>
        /\ \A p \in WorkingFiles(req[r]) \cup {req[r].mergedVideoPath} : ~Exists(fs, p)
        /\ Exists(fs, req[r].outputPath)

\* C2 amended: after a successful request with a clean cleanup, no uploaded
\* file, segment or list file of the request is on disk; the merged track and
\* the final artifact both are.
C2_CleanupKeepsMergedAndFinal ==
    \A r \in Reqs :
      req[r].pc = "CleanedUp" =>
        /\ \A p \in WorkingFiles(req[r]) : ~Exists(fs, p)
        /\ Exists(fs, req[r].mergedVideoPath)
        /\ Exists(fs, req[r].outputPath)

\* C2 witness: a clean cleanup after a request with a segment and an
\* unsupported upload, each upload under its own path.
C2_Witness ==
    /\ req["r1"].pc = "CleanedUp"
    /\ Len(req["r1"].segmentPaths) = 1
    /\ Len(req["r1"].mediaFiles) = 2
    /\ Cardinality(WorkingFiles(req["r1"])) = 5

\* C3: a handled request with no media item is answered 400 ("No media files
\* received."), has started no tool invocation, and has left no file in the
\* temporary or the output directory.
C3_NoMediaRejected ==
    \A r \in Reqs :
      (Handled(req[r]) /\ req[r].mediaFiles = <<>>) =>
        /\ req[r].pc = "Rejected"
        /\ req[r].status = 400
        /\ req[r].body = "No media files received."
        /\ req[r].calls = <<>>
        /\ FilesIn(tempFolder) = {}
        /\ FilesIn(outputFolder) = {}

\* C3 witness: a request with audio and no media has been answered.
C3_Witness ==
    /\ Handled(req["r1"])
    /\ req["r1"].mediaFiles = <<>>
    /\ req["r1"].audioFiles # <<>>

\* C4: a handled request with at least one media item and no audio item is
\* answered 400 ("No audio file received."); no normalizer, concat or mux
\* invocation was started and no segment, list file, merged track or final
\* artifact was written.
C4_NoAudioRejected ==
    \A r \in Reqs :
      (Handled(req[r]) /\ req[r].mediaFiles # <<>> /\ req[r].audioFiles = <<>>) =>
        /\ req[r].pc = "Rejected"
        /\ req[r].status = 400
        /\ req[r].body = "No audio file received."
        /\ req[r].calls = <<>>
        /\ req[r].segmentPaths = <<>>
        /\ req[r].concatListPath = <<>>
        /\ FilesIn(tempFolder) = {}
        /\ FilesIn(outputFolder) = {}

\* C4 witness: a request with a supported media item and no audio has been
\* answered.
C4_Witness ==
    /\ Handled(req["r1"])
    /\ req["r1"].audioFiles = <<>>
    /\ \E k \in 1..Len(req["r1"].mediaFiles) : Supported(req["r1"].mediaFiles[k])

\* Media and audio were supplied and no media item is an image or a video.
AllUnsupported(rq) ==
    /\ rq.mediaFiles # <<>>
    /\ rq.audioFiles # <<>>
    /\ \A k \in 1..Len(rq.mediaFiles) : ~Supported(rq.mediaFiles[k])

\* C5: a handled request with media and audio whose media items are all of
\* unsupported type is answered 400 ("No valid media ...") with no list file
\* built, no tool invocation started and nothing written to the temporary or
\* output directory.
C5_AllUnsupportedRejected ==
    \A r \in Reqs :
      (Handled(req[r]) /\ AllUnsupported(req[r])) =>
        /\ req[r].pc = "Rejected"
        /\ req[r].status = 400
        /\ req[r].body = "No valid media (image/video) files to process."
        /\ req[r].calls = <<>>
        /\ req[r].concatListPath = <<>>
        /\ req[r].concatFileContent = <<>>
        /\ FilesIn(tempFolder) = {}
        /\ FilesIn(outputFolder) = {}

\* C5 witness: a request with two unsupported media items and audio has been
\* answered.
C5_Witness ==
    /\ Handled(req["r1"])
    /\ AllUnsupported(req["r1"])
    /\ Len(req["r1"].mediaFiles) = 2

\* C6: an invocation that failed is the last one the request ever started (no
\* later stage, no retry), the request has answered 500 with the JSON error,
\* and it is not streaming a final artifact; every earlier invocation ended
\* well, and no item or stage was invoked twice.
C6_FailureStopsRequest ==
    \A r \in Reqs :
      LET calls == req[r].calls
      IN  /\ \A k \in 1..Len(calls) :
               calls[k].outcome = "error" =>
                 /\ k = Len(calls)
                 /\ req[r].pc = "Failed"
                 /\ req[r].status = 500
                 /\ req[r].body = "Failed to create video."
          /\ \A k \in 1..Len(calls) : k < Len(calls) => calls[k].outcome = "end"
          /\ \A j, k \in 1..Len(calls) :
               (j < k /\ calls[j].tool = calls[k].tool) => calls[j].item # calls[k].item

\* C6 witness: the second normalizer invocation of a request failed.
C6_Witness ==
    /\ Len(req["r1"].calls) = 2
    /\ req["r1"].calls[2].tool \in {"image", "video"}
    /\ req["r1"].calls[2].outcome = "error"

\* C6 witness: the mux invocation of a request failed.
C6_WitnessMux ==
    /\ req["r1"].pc = "Failed"
    /\ LastCall(req["r1"]).tool = "mux"

\* The request has at least one supported item, and audio.
SomeSupported(rq) ==
    /\ rq.audioFiles # <<>>
    /\ \E k \in 1..Len(rq.mediaFiles) : Supported(rq.mediaFiles[k])

\* Seconds an item contributes to the merged track, by the uploaded file as it
\* is on disk: an image a 3-second clip, a video its own length.
ItemSeconds(file) == IF IsImage(file) THEN 3 ELSE fs[file.path].dur

C8_QuotingRoundTrip ==
    qphase = "written" =>
      /\ ParseLine(qline).ok
      /\ ParseLine(qline).token = qpath

\* C8 witness: a line was written for a path with two quotes.
C8_Witness ==
    /\ qphase = "written"
    /\ Cardinality({k \in 1..Len(qpath) : qpath[k] = Quote}) = 2

\* C9: while the final artifact of a successful request is being delivered,
\* it is as long as the shorter of the merged track and the audio track: a
\* longer video is cut to the audio, a longer audio to the video.
C9_ShortestPolicy ==
    \A r \in Reqs :
      req[r].pc = "Delivering" =>
        LET final == fs[req[r].outputPath].dur
            merged == fs[req[r].mergedVideoPath].dur
            audio == fs[req[r].audioFiles[1].path].dur
        IN  /\ merged >= audio => final = audio
            /\ audio >= merged => final = merged

\* C9 witness: a merged track longer than the audio is cut to the audio.
C9_Witness ==
    /\ req["r1"].pc = "Delivering"
    /\ fs[req["r1"].mergedVideoPath].dur > fs[req["r1"].audioFiles[1].path].dur
    /\ fs[req["r1"].outputPath].dur = AudioSeconds

\* C9 witness: an audio track longer than the merged track is cut to it.
C9_WitnessLongAudio ==
    /\ req["r1"].pc = "Delivering"
    /\ fs[req["r1"].mergedVideoPath].dur < fs[req["r1"].audioFiles[1].path].dur
    /\ fs[req["r1"].outputPath].dur = fs[req["r1"].mergedVideoPath].dur

\* Every media item of the request is an image.
AllImages(rq) ==
    /\ rq.mediaFiles # <<>>
    /\ \A k \in 1..Len(rq.mediaFiles) : IsImage(rq.mediaFiles[k])

\* C10: in a request whose N media items are all images, every segment on
\* disk lasts 3 seconds, the list file names N segments, and the merged track
\* lasts 3*N seconds when the mux starts.
C10_ImagesThreeSecondsEach ==
    \A r \in Reqs :
      AllImages(req[r]) =>
        /\ \A k \in 1..Len(req[r].segmentPaths) :
             Exists(fs, req[r].segmentPaths[k]) => fs[req[r].segmentPaths[k]].dur = 3
        /\ req[r].concatListPath # <<>> =>
             Len(req[r].segmentPaths) = Len(req[r].mediaFiles)
        /\ req[r].pc \in {"Muxing", "Delivering"} =>
             fs[req[r].mergedVideoPath].dur = 3 * Len(req[r].mediaFiles)

\* C10 witness: the merged track of a request with two images is being muxed.
C10_Witness ==
    /\ req["r1"].pc = "Muxing"
    /\ AllImages(req["r1"])
    /\ Len(req["r1"].mediaFiles) = 2

\* C11: within one request at most one tool invocation is in flight, and it
\* is the one started last: normalizer invocations run one item after the
\* other in upload order, the concat invocation is started only after every
\* supported item's normalizer has ended, and the mux invocation only after
\* the concat invocation has ended.
C11_OneInvocationAtATime ==
    \A r \in Reqs :
      LET calls == req[r].calls
      IN  /\ \A k \in 1..Len(calls) : calls[k].outcome = "running" => k = Len(calls)
          /\ \A j, k \in 1..Len(calls) :
               (j < k /\ calls[k].tool \in {"image", "video"}) =>
                 /\ calls[j].tool \in {"image", "video"}
                 /\ calls[j].item < calls[k].item
                 /\ calls[j].outcome = "end"
          /\ \A k \in 1..Len(calls) :
               calls[k].tool = "concat" =>
                 /\ k = Len(SupportedItems(req[r])) + 1
                 /\ \A j \in 1..(k - 1) :
                      calls[j].tool \in {"image", "video"} /\ calls[j].outcome = "end"
          /\ \A k \in 1..Len(calls) :
               calls[k].tool = "mux" =>
                 /\ k >= 2
                 /\ calls[k - 1].tool = "concat"
                 /\ calls[k - 1].outcome = "end"

\* C11 witness: the second normalizer invocation is in flight after the first
\* has ended.
C11_Witness ==
    /\ Len(req["r1"].calls) = 2
    /\ req["r1"].calls[1].outcome = "end"
    /\ req["r1"].calls[2].tool \in {"image", "video"}
    /\ req["r1"].calls[2].outcome = "running"

\* The transitions of the request state machine as claimed.
ClaimedTransitions ==
    {<<"Received", "Normalizing">>, <<"Normalizing", "Concatenating">>,
     <<"Concatenating", "Muxing">>, <<"Muxing", "Delivering">>,
     <<"Delivering", "CleanedUp">>, <<"Delivering", "CleanupPartialFailure">>,
     <<"Normalizing", "Failed">>, <<"Concatenating", "Failed">>,
     <<"Muxing", "Failed">>}

\* A request enters Failed only as its awaited invocation emits "error".
FailedOnlyOnToolFailure(r) ==
    (req[r].pc # "Failed" /\ req'[r].pc = "Failed") =>
      /\ LastCall(req[r]).outcome = "running"
      /\ LastCall(req'[r]).outcome = "error"
      /\ Len(req'[r].calls) = Len(req[r].calls)

WrittenSoFar(rq) ==
    {rq.audioFiles[k].path : k \in 1..Len(rq.audioFiles)}
    \cup {rq.mediaFiles[k].path : k \in 1..Len(rq.mediaFiles)}
    \cup {rq.segmentPaths[k] : k \in 1..Len(rq.segmentPaths)}
    \cup (IF rq.concatListPath # <<>> THEN {rq.concatListPath} ELSE {})
    \cup {rq.calls[k].out : k \in {j \in 1..Len(rq.calls) : rq.calls[j].outcome = "end"}}

\* C13: a request that ended Failed (500) has deleted nothing: every upload,
\* every segment produced, the concat list if written and the merged track if
\* written are on disk when the request fails, and no step of the failed
\* request changes the disk afterwards.
C13_FailedDeletesNothing ==
    /\ [](\A r \in Reqs :
            req[r].pc = "Failed" =>
              /\ req[r].status = 500
              /\ \A p \in WrittenSoFar(req[r]) : Exists(fs, p))
    /\ [][\A r \in Reqs : req[r].pc = "Failed" => fs' = fs]_vars

\* C13 witness: the mux invocation failed after segments, concat list and
\* merged track were written.
C13_Witness ==
    /\ req["r1"].pc = "Failed"
    /\ Len(req["r1"].segmentPaths) >= 1
    /\ LastCall(req["r1"]).tool = "mux"
    /\ Exists(fs, req["r1"].mergedVideoPath)
    /\ Exists(fs, req["r1"].concatListPath)

\* Some file that was on disk is no longer.
SomeFileDeleted == \E p \in DOMAIN fs : p \notin DOMAIN fs'

\* C14: files are deleted only by the step in which the delivery stream of a
\* request closes: no step before that deletes a file, and none does when the
\* stream ended with an error.
C14_DeletionOnlyOnStreamClose ==
    [][SomeFileDeleted =>
         \E r \in Reqs :
           /\ req[r].pc = "Delivering"
           /\ req[r].readStream = "open"
           /\ req'[r].readStream = "closed"]_vars

\* C14 witness: the delivery stream ended with an error and every working
\* file of the request is still on disk.
C14_Witness ==
    /\ req["r1"].readStream = "error"
    /\ \A p \in WorkingFiles(req["r1"]) : Exists(fs, p)

\* C15: a deletion that fails during cleanup is only logged: the request ends
\* in CleanupPartialFailure with the response it already had (200, the
\* stream), no error answer is sent, and the server keeps running.
C15_CleanupFailureOnlyLogged ==
    /\ [](\A r \in Reqs :
            req[r].pc = "CleanupPartialFailure" =>
              /\ req[r].status = 200
              /\ req[r].body = "stream"
              /\ req[r].readStream = "closed"
              /\ up)
    /\ [][\A r \in Reqs :
            (req[r].pc = "Delivering" /\ req'[r].pc # "Delivering") =>
              /\ req'[r].pc \in {"CleanedUp", "CleanupPartialFailure"}
              /\ req'[r].status = req[r].status
              /\ req'[r].body = req[r].body
              /\ req'[r].calls = req[r].calls]_vars

\* C15 witness: a cleanup stopped by a failing deletion, with a working file
\* left on disk.
C15_Witness ==
    /\ req["r1"].pc = "CleanupPartialFailure"
    /\ \E p \in WorkingFiles(req["r1"]) : Exists(fs, p)

\* The path assigned to each file the request has written or is writing, one
\* entry per file: the uploads in arrival order, the outputs of the
\* invocations started, and the concat list once built.
AssignedPaths(rq) ==
    [k \in 1..Len(rq.mediaFiles) |-> rq.mediaFiles[k].path]
    \o [k \in 1..Len(rq.audioFiles) |-> rq.audioFiles[k].path]
    \o [k \in 1..Len(rq.calls) |-> rq.calls[k].out]
    \o (IF rq.concatListPath # <<>> THEN <<rq.concatListPath>> ELSE <<>>)

\* C16: no two distinct files written are assigned the same path, whatever the
\* clock reads when their names are made.
C16_PathsUnique ==
    \A r \in Reqs :
      LET paths == AssignedPaths(req[r])
      IN  \A j, k \in 1..Len(paths) : j # k => paths[j] # paths[k]

\* The request awaits a tool invocation.
Awaiting(rq) == rq.pc \in {"Normalizing", "Concatenating", "Muxing"}

\* C17: there is no timeout. A request that awaits a tool invocation has sent
\* no response, and for as long as that invocation has emitted neither "end"
\* nor "error" nothing happens to the request however much time passes: it
\* stays in its stage, starts no other invocation, sends no response and no
\* file is deleted. The only step that changes it is the one in which the
\* awaited invocation emits "end" or "error".
C17_NoTimeout ==
    /\ [](\A r \in Reqs :
            Awaiting(req[r]) =>
              /\ LastCall(req[r]).outcome = "running"
              /\ req[r].status = 0)
    /\ [][\A r \in Reqs :
            (Awaiting(req[r]) /\ (req'[r] # req[r] \/ SomeFileDeleted)) =>
              req'[r].calls[Len(req[r].calls)].outcome \in {"end", "error"}]_vars

\* C17 witness: the clock has reached its last value and the request still
\* awaits the concat invocation it started at time 0.
C17_Witness ==
    /\ now = MaxTime
    /\ req["r1"].pc = "Concatenating"
    /\ LastCall(req["r1"]).outcome = "running"
    /\ LastCall(req["r1"]).out =
         PathJoin(tempFolder, <<"merged-">> \o NumStr(0) \o <<".mp4">>)

\* The bodies of the 400 answers.
InputErrors ==
    {"No media files received.", "No audio file received.",
     "No valid media (image/video) files to process."}

\* C18: a request sends at most one response, which is a 400 JSON error, the
\* 500 JSON error or the streamed video; once sent it is never replaced. A 400
\* is sent only while no tool invocation has been started, and a 500 only
\* while the stream has not been opened.
C18_AtMostOneResponse ==
    /\ [](\A r \in Reqs :
            /\ req[r].sent <= 1
            /\ req[r].sent = 0 <=> req[r].status = 0
            /\ req[r].status \in {0, 200, 400, 500}
            /\ req[r].status = 400 =>
                 req[r].body \in InputErrors /\ req[r].calls = <<>>
            /\ req[r].status = 500 =>
                 /\ req[r].body = "Failed to create video."
                 /\ req[r].readStream = "none"
                 /\ LastCall(req[r]).outcome = "error"
            /\ req[r].status = 200 =>
                 req[r].body = "stream" /\ req[r].readStream # "none")
    /\ [][\A r \in Reqs :
            req[r].status # 0 =>
              /\ req'[r].status = req[r].status
              /\ req'[r].body = req[r].body
              /\ req'[r].calls = req[r].calls]_vars

\* C18 witness: the video has been streamed and the cleanup afterwards failed
\* in part; the one response is still the stream.
C18_Witness ==
    /\ req["r1"].pc = "CleanupPartialFailure"
    /\ req["r1"].sent = 1
    /\ req["r1"].status = 200

\* The order in which cleanup takes the files: audio, media in upload order,
\* segments in order, concat list.
CleanupOrder(rq) ==
    <<rq.audioFiles[1].path>>
    \o [k \in 1..Len(rq.mediaFiles) |-> rq.mediaFiles[k].path]
    \o rq.segmentPaths
    \o <<rq.concatListPath>>

\* The cleanup of request r runs in this step.
CleanupRuns(r) == req[r].pc = "Delivering" /\ req'[r].pc # "Delivering"

\* Cleanup went through the order up to, and not including, its k-th file:
\* the files before it are gone, and it and every file after it that was on
\* disk still is.
StoppedAt(order, k) ==
    /\ \A j \in 1..(k - 1) : ~Exists(fs', order[j])
    /\ \A j \in k..Len(order) : Exists(fs, order[j]) => Exists(fs', order[j])

\* C19: cleanup takes the files in the order audio, media, segments, concat
\* list and stops at the first deletion that fails: a cleanup that failed has
\* deleted the files before some position of the order and left every file
\* from that position on on disk (nothing at all when the audio file could
\* not be deleted); a cleanup that did not fail has deleted them all. No
\* other file is touched.
C19_StopsAtFirstFailure ==
    [][\A r \in Reqs :
         CleanupRuns(r) =>
           LET order == CleanupOrder(req[r])
           IN  /\ \A p \in DOMAIN fs \ DOMAIN fs' : \E j \in 1..Len(order) : order[j] = p
               /\ req'[r].pc = "CleanedUp" =>
                    \A j \in 1..Len(order) : ~Exists(fs', order[j])
               /\ req'[r].pc = "CleanupPartialFailure" =>
                    \E k \in 1..Len(order) : StoppedAt(order, k)]_vars

\* The files of the request have paths of their own.
DistinctPaths(rq) ==
    \A j, k \in 1..Len(CleanupOrder(rq)) :
      j # k => CleanupOrder(rq)[j] # CleanupOrder(rq)[k]

\* The same for requests whose files all have paths of their own.
StopsAtFirstFailureWhenDistinct ==
    [][\A r \in Reqs :
         (CleanupRuns(r) /\ DistinctPaths(req[r])) =>
           LET order == CleanupOrder(req[r])
           IN  /\ \A p \in DOMAIN fs \ DOMAIN fs' : \E j \in 1..Len(order) : order[j] = p
               /\ req'[r].pc = "CleanedUp" =>
                    \A j \in 1..Len(order) : ~Exists(fs', order[j])
               /\ req'[r].pc = "CleanupPartialFailure" =>
                    \E k \in 1..Len(order) : StoppedAt(order, k)]_vars

\* The request has its outcome.
Terminal(rq) == rq.pc \in {"Rejected", "Failed", "CleanedUp", "CleanupPartialFailure"}

\* The invocations of the given tools the request has started.
Started(rq, tools) == {k \in 1..Len(rq.calls) : rq.calls[k].tool \in tools}

\* C20: when every awaited tool invocation emits "end" or "error" and the
\* delivery stream closes, a request whose handler has run reaches a terminal
\* outcome (400, Failed, CleanedUp or CleanupPartialFailure); on the way it
\* starts at most one normalizer invocation per media item, at most one concat
\* and at most one mux invocation.
C20_Terminates ==
    /\ [](\A r \in Reqs :
            /\ Cardinality(Started(req[r], {"image", "video"})) <= Len(req[r].mediaFiles)
            /\ Cardinality(Started(req[r], {"concat"})) <= 1
            /\ Cardinality(Started(req[r], {"mux"})) <= 1)
    /\ \A r \in Reqs :
         Handled(req[r]) ~> (Terminal(req[r]) \/ req[r].readStream = "error")

\* C20 witness: a request with as many media items as allowed has been through
\* every invocation and reached its outcome.
C20_Witness ==
    /\ Len(req["r1"].mediaFiles) = MaxMedia
    /\ Cardinality(Started(req["r1"], {"image", "video"})) = MaxMedia
    /\ Cardinality(Started(req["r1"], {"mux"})) = 1
    /\ req["r1"].pc = "CleanedUp"

====
